---- MODULE Spec2Model ----
(***************************************************************************)
(* Model of src/dr_policy.py: the three tabular policy classes DRPolicyKL, *)
(* DRPolicySinkhorn and DRPolicyWass.  One policy object is modelled: its  *)
(* fields, the frame of the update() call that is running or has just      *)
(* ended, and the reference a caller obtained from get_policy().           *)
(*                                                                         *)
(* Numbers.  A float is a pair <<n, d>>: the rational n/d when d > 0,      *)
(* +inf when it is <<1, 0>> and NaN when it is <<0, 0>>.  Arithmetic is    *)
(* exact on the finite values (rounding of the mantissa is not modelled)   *)
(* and follows IEEE-754 on inf and NaN, which is what numpy does: it warns *)
(* and goes on.  np.exp overflows to inf and underflows to 0 at float64's  *)
(* thresholds; between them it is modelled at the resolution of a binary   *)
(* exponent (see Exp).                                                     *)
(***************************************************************************)
EXTENDS Integers, Sequences, FiniteSets, TLC

\* ---------------------------------------------------------------- bounds
\* Constructor arguments of the modelled object.
StaNum == 1
ActNum == 2
\* Constructor argument sta_num of the object whose update() is followed
\* step by step (SpecSteps).
StepStaNum == 2
\* Longest batch of samples passed to update().
MaxBatch == 2
\* Longest batch passed to the DRPolicyWass object that is given samples of
\* its own states and actions only (SpecWass).
WassBatch == 1
\* Number of update() calls on the object.
MaxUpdates == 2
\* Number of update() calls followed step by step.
MaxStepUpdates == 1
\* Largest episode counter eps passed to update().
MaxEps == 3

\* Advantage values a sample can carry; the last one is beyond the range
\* of np.exp.
AdvValues == <<-1, 1, 100000>>
\* Advantage values of the samples given to DRPolicyWass alone.
SmallAdvValues == <<-1, 2>>

EnvNames == {"Taxi-v3", "NChain-v0", "CliffWalking-v0", "FrozenLake-v0"}

\* np.random.random() at line 279, in tenths: a value of [0, 1).
RandomTenths == {0, 5}

\* ---------------------------------------------------------------- floats
None == <<>>
Zero == <<0, 1>>
One == <<1, 1>>
Inf == <<1, 0>>
NaN == <<0, 0>>

Abs(x) == IF x < 0 THEN -x ELSE x

RECURSIVE Gcd(_, _)
Gcd(a, b) == IF b = 0 THEN a ELSE Gcd(b, a % b)

\* The float n/d in lowest terms; n/0 is inf (n > 0) or NaN (n = 0).
Norm(n, d) ==
    IF d = 1 THEN <<n, 1>>
    ELSE IF d = 0 THEN (IF n = 0 THEN NaN ELSE Inf)
    ELSE LET g == Gcd(Abs(n), Abs(d))
             sg == IF d < 0 THEN -1 ELSE 1
         IN <<sg * (n \div g), sg * (d \div g)>>

Rat(n, d) == Norm(n, d)
FromInt(n) == <<n, 1>>

IsFinite(x) == x[2] > 0
IsNaN(x) == x = NaN

FAdd(x, y) ==
    IF IsNaN(x) \/ IsNaN(y) THEN NaN
    ELSE IF x = Inf \/ y = Inf THEN Inf
    ELSE IF x[2] = y[2] THEN Norm(x[1] + y[1], x[2])
    ELSE LET g == Gcd(x[2], y[2])
         IN Norm(x[1] * (y[2] \div g) + y[1] * (x[2] \div g), x[2] * (y[2] \div g))

FSub(x, y) == FAdd(x, <<-y[1], y[2]>>)

FMul(x, y) ==
    IF IsNaN(x) \/ IsNaN(y) THEN NaN
    ELSE IF x = Inf \/ y = Inf
         THEN (IF x = Zero \/ y = Zero THEN NaN ELSE Inf)
    ELSE IF x[1] = 0 \/ y[1] = 0 THEN Zero
    ELSE LET a == Norm(x[1], y[2])
             b == Norm(y[1], x[2])
         IN <<a[1] * b[1], a[2] * b[2]>>

\* numpy division: x/0 is inf for x > 0 and NaN for x = 0, inf/inf is NaN.
FDiv(x, y) ==
    IF IsNaN(x) \/ IsNaN(y) THEN NaN
    ELSE IF x = Inf THEN (IF y = Inf THEN NaN ELSE Inf)
    ELSE IF y = Inf THEN Zero
    ELSE IF y = Zero THEN (IF x = Zero THEN NaN ELSE Inf)
    ELSE FMul(x, Norm(y[2], y[1]))

\* x > y on finite floats.
FGreater(x, y) == x[1] * y[2] > y[1] * x[2]

RECURSIVE Pow2(_)
Pow2(k) == IF k = 0 THEN 1 ELSE 2 * Pow2(k - 1)

\* float64: exp(x) is inf above 709.78 and 0 below -745.13.
ExpOverflow == <<70978, 100>>
ExpUnderflow == <<-74513, 100>>

\* np.exp on a finite float.  Within float64's range the value is kept at
\* the resolution of its binary exponent, 2^floor(x): positive, monotone,
\* exp(0) = 1.  The projectors use exponentials only inside ratios.
Exp(x) ==
    IF FGreater(x, ExpOverflow) THEN Inf
    ELSE IF FGreater(ExpUnderflow, x) THEN Zero
    ELSE LET k == x[1] \div x[2]
         IN IF k >= 0 THEN <<Pow2(k), 1>> ELSE <<1, Pow2(-k)>>

\* ------------------------------------------------------------- the object
VARIABLES
    cls,              \* the class of the object
    sta_num,          \* self.sta_num
    act_num,          \* self.act_num
    distributions,    \* the list self.distributions refers to
    lamb,             \* self.lamb (DRPolicySinkhorn)
    held,             \* the list a caller got from get_policy(), or None
    heldAlias,        \* whether that list is the object self.distributions is
    heldSnap,         \* the rows that list had when the caller got it
    pc,               \* "idle", or where the running update() call is
    observes,         \* frame of update(): the samples, <<state, action, advantage>>
    env_name,         \* frame: env_name
    eps,              \* frame: eps
    all_advantages,   \* frame: all_advantages
    count,            \* frame: count
    beta,             \* frame: beta / opt_beta, None while unbound
    best_j,           \* frame: best_j (DRPolicyWass)
    old_distributions,\* frame: old_distributions
    s_i,              \* frame: s of the loop that builds the new policy, when the
                      \* call is followed step by step
    j_i,              \* frame: j of that loop
    raised,           \* the exception the last update() ended with, or "none"
    nUpdates,         \* update() calls made so far
    allOk,            \* no update() call so far has raised
    sampled,          \* what the last sample() returned
    pre               \* the rows self.distributions had when update() was entered

frame == <<observes, env_name, eps, all_advantages, count, beta, best_j,
           old_distributions, s_i, j_i, pre>>
reader == <<held, heldAlias, heldSnap, sampled>>
vars == <<cls, sta_num, act_num, distributions, lamb, pc, raised, nUpdates,
          allOk, frame, reader>>

\* The function f as an explicit table of its values.
Now(f) == f @@ <<>>

States == 0 .. sta_num - 1
Actions == 0 .. act_num - 1

\* np.zeros(act_num), one per state.
ZeroTable == Now([s \in States |-> Now([a \in Actions |-> Zero])])

\* np.ones(act_num)/act_num, one per state.
UniformTable == Now([s \in States |-> Now([a \in Actions |-> Rat(1, act_num)])])

RECURSIVE SumOver(_, _)
\* Sum of f[a] over a in the set S, in ascending order of a.
SumOver(f, S) ==
    IF S = {} THEN Zero
    ELSE LET m == CHOOSE x \in S : \A y \in S : y <= x
         IN FAdd(SumOver(f, S \ {m}), f[m])

\* A row is a probability mass function.
ValidRow(row) ==
    /\ \A a \in DOMAIN row : IsFinite(row[a]) /\ row[a][1] >= 0
    /\ SumOver(row, DOMAIN row) = One

Support(row) == {a \in DOMAIN row : row[a] # Zero}

\* calc_d: the discrete metric.
calc_d(ai, aj) == IF ai = aj THEN 0 ELSE 1

\* Python indexing of a sequence of length n: -1 when it raises IndexError.
PyIndex(i, n) ==
    IF 0 <= i /\ i < n THEN i
    ELSE IF -n <= i /\ i < 0 THEN i + n
    ELSE -1

\* ------------------------------------------------- update(): lines 48-60
ZeroCount == Now([s \in States |-> Now([a \in Actions |-> 0])])

\* Lines 54-56: the samples from the k-th on are added to their cells, until
\* one indexes outside the table (IndexError).  A negative index counts from
\* the end, as Python and numpy index.
RECURSIVE Accumulate(_, _, _, _)
Accumulate(batch, k, adv, cnt) ==
    IF k > Len(batch) THEN [adv |-> adv, cnt |-> cnt, err |-> "none"]
    ELSE LET s == PyIndex(batch[k][1], sta_num)
             a == PyIndex(batch[k][2], act_num)
         IN IF s = -1 \/ a = -1
            THEN [adv |-> adv, cnt |-> cnt, err |-> "IndexError"]
            ELSE Accumulate(batch, k + 1,
                     [adv EXCEPT ![s][a] = FAdd(@, FromInt(batch[k][3]))],
                     [cnt EXCEPT ![s][a] = @ + 1])

\* Lines 57-60 without the division: every cell keeps the sum of its samples.
AverageSum(p) == p

\* Lines 57-60: a cell that was observed holds the mean of its samples.
Average(p) ==
    IF p.err # "none" THEN p
    ELSE [p EXCEPT !.adv = Now([s \in States |-> Now([a \in Actions |->
             IF p.cnt[s][a] # 0 THEN FDiv(p.adv[s][a], FromInt(p.cnt[s][a]))
             ELSE p.adv[s][a]])])]

\* Lines 48-60 of update(), the same in the three classes (129-141, 236-248).
Aggregate(batch) == Average(Accumulate(batch, 1, ZeroTable, ZeroCount))

\* all_advantages[s][a] += x for each <<s, a, x>> of adjs from the k-th on,
\* until one indexes outside the table.
RECURSIVE Adjust(_, _, _)
Adjust(p, adjs, k) ==
    IF p.err # "none" \/ k > Len(adjs) THEN p
    ELSE LET s == PyIndex(adjs[k][1], sta_num)
             a == PyIndex(adjs[k][2], act_num)
         IN IF s = -1 \/ a = -1 THEN [p EXCEPT !.err = "IndexError"]
            ELSE Adjust([p EXCEPT !.adv[s][a] = FAdd(@, adjs[k][3])], adjs, k + 1)

\* if env_name == name: the additions adjs.
Bonus(p, env, name, adjs) == IF env = name THEN Adjust(p, adjs, 1) ELSE p

\* Lines 62-64 and 143-145.
NChainBonusKL == <<<<0, 1, Rat(1, 10)>>, <<1, 1, Rat(3, 10)>>>>
\* Lines 250-252.
NChainBonusWass == <<<<0, 1, Rat(1, 10)>>, <<1, 1, Rat(1, 10)>>>>
\* Lines 66-68.
TaxiFirstRow == 400
TaxiRows == 100
TaxiBonus == 2
TaxiBonusKL == [k \in 1 .. TaxiRows |-> <<TaxiFirstRow + k - 1, 0, FromInt(TaxiBonus)>>]

\* ------------------------------------------------ DRPolicyKL: lines 48-91
\* Lines 48-68: the advantage table of DRPolicyKL.update.
KLPrepare(batch, env) ==
    Bonus(Bonus(Aggregate(batch), env, "NChain-v0", NChainBonusKL),
          env, "Taxi-v3", TaxiBonusKL)

\* Line 85.
KLBeta == One

\* w / np.sum(w).
Normalised(w) == Now([a \in DOMAIN w |-> FDiv(w[a], SumOver(w, DOMAIN w))])

\* Lines 90-91: the exponential tilt of one row.
KLRow(adv_row, old_row, b) ==
    Normalised(Now([a \in DOMAIN old_row |-> FMul(Exp(FDiv(adv_row[a], b)), old_row[a])]))

\* Lines 89-91, every row.
KLTable(adv, old, b) == Now([s \in DOMAIN old |-> KLRow(adv[s], old[s], b)])

\* ----------------------------------------- DRPolicySinkhorn: lines 129-180
\* Lines 129-145: the advantage table of DRPolicySinkhorn.update.
SinkhornPrepare(batch, env) ==
    Bonus(Aggregate(batch), env, "NChain-v0", NChainBonusKL)

\* Lines 151-165: beta, None when no branch binds it, and self.lamb.
SinkhornConfig(env, e, lamb0) ==
    IF env = "Taxi-v3"
    THEN [beta |-> FromInt(3),
          lamb |-> IF e * e >= 6 THEN Rat(11, 2) ELSE FromInt(e * e)]
    ELSE IF env = "NChain-v0"
    THEN [beta |-> Rat(4, 5), lamb |-> lamb0]
    ELSE [beta |-> None, lamb |-> lamb0]

\* Lines 177 and 179: exp((lamb/beta)*A[s][i] - lamb*d(i,j)).
Score(adv_row, i, j, l, b) ==
    Exp(FSub(FMul(FDiv(l, b), adv_row[i]), FMul(l, FromInt(calc_d(i, j)))))

\* Lines 178-180: the mass of source action j goes to every destination i
\* in proportion to its score sc[i].
Spread(row, mass, sc) ==
    Now([i \in DOMAIN row |-> FAdd(row[i], FDiv(FMul(mass, sc[i]), SumOver(sc, DOMAIN sc)))])

\* Lines 175-180, one pass of the loop over j.
SinkhornSource(row, old_row, adv_row, j, l, b) ==
    Spread(row, old_row[j], Now([k \in DOMAIN old_row |-> Score(adv_row, k, j, l, b)]))

RECURSIVE SinkhornFrom(_, _, _, _, _, _)
\* Lines 174-180: the passes j, j + 1, ... of the loop over j.
SinkhornFrom(row, old_row, adv_row, j, l, b) ==
    IF j \notin DOMAIN old_row THEN row
    ELSE SinkhornFrom(SinkhornSource(row, old_row, adv_row, j, l, b),
                      old_row, adv_row, j + 1, l, b)

\* Lines 171-180 for one state.
SinkhornRow(adv_row, old_row, l, b) ==
    SinkhornFrom(Now([a \in DOMAIN old_row |-> Zero]), old_row, adv_row, 0, l, b)

\* Lines 173-180, every row.
SinkhornTable(adv, old, l, b) ==
    Now([s \in DOMAIN old |-> SinkhornRow(adv[s], old[s], l, b)])

\* --------------------------------------------- DRPolicyWass: lines 236-302
\* Lines 236-252: the advantage table of DRPolicyWass.update.
WassPrepare(batch, env) ==
    Bonus(Aggregate(batch), env, "NChain-v0", NChainBonusWass)

\* Lines 278-283: opt_beta, None when no branch binds it; r is the draw of
\* np.random.random(), in tenths.
WassConfig(env, r) ==
    IF env = "CliffWalking-v0" THEN Rat(1, 2)
    ELSE IF env = "NChain-v0" THEN Rat(4, 5)
    ELSE IF env = "Taxi-v3"
    THEN FAdd(FromInt(2), FMul(Rat(4, 5), FSub(Rat(r, 10), Rat(1, 2))))
    ELSE None

\* Lines 260 and 262: A[s][j] - beta*d(j,i).
WassValue(adv_row, j, i, b) ==
    FSub(adv_row[j], FMul(b, FromInt(calc_d(j, i))))

\* The values cur_val of lines 260 and 262 for the source action i, by j.
WassValues(adv_row, i, b) ==
    Now([j \in DOMAIN adv_row |-> WassValue(adv_row, j, i, b)])

RECURSIVE WassScanLast(_, _, _)
\* The scan with "cur_val >= opt_val" at line 263: the last of several best
\* destinations wins.
WassScanLast(vals, j, opt_j) ==
    IF j \notin DOMAIN vals THEN opt_j
    ELSE IF ~FGreater(vals[opt_j], vals[j])
         THEN WassScanLast(vals, j + 1, j)
         ELSE WassScanLast(vals, j + 1, opt_j)

RECURSIVE WassScan(_, _, _)
\* Lines 261-265: the scan over j, j + 1, ... with opt_j the best so far and
\* vals[opt_j] its value opt_val.
WassScan(vals, j, opt_j) ==
    IF j \notin DOMAIN vals THEN opt_j
    ELSE IF FGreater(vals[j], vals[opt_j])
         THEN WassScan(vals, j + 1, j)
         ELSE WassScan(vals, j + 1, opt_j)

\* Lines 254-267: find_best_j.
find_best_j(adv, b) ==
    Now([s \in DOMAIN adv |-> Now([i \in DOMAIN adv[s] |-> WassScan(WassValues(adv[s], i, b), 0, 0)])])

\* Lines 300-302 with the test at line 301 dropped: every cell receives the
\* mass of every source action.
WassCellSpread(old_row, best_row, j) ==
    SumOver(old_row, DOMAIN old_row)

\* Lines 300-302 for one cell: the mass of every i sent to j.
WassCell(old_row, best_row, j) ==
    SumOver(old_row, {i \in DOMAIN old_row : best_row[i] = j})

\* Lines 298-302, every row.
WassTable(old, best) ==
    Now([s \in DOMAIN old |-> Now([j \in DOMAIN old[s] |-> WassCell(old[s], best[s], j)])])

\* ------------------------------------------------------------ the inputs
SamplesOf(smin, smax, amin, amax, advs) ==
    {<<s, a, advs[k]>> : s \in smin .. smax, a \in amin .. amax, k \in 1 .. Len(advs)}

LexLeq(x, y) ==
    \/ x[1] < y[1]
    \/ x[1] = y[1] /\ x[2] < y[2]
    \/ x[1] = y[1] /\ x[2] = y[2] /\ x[3] <= y[3]

\* The batches of at most n samples of S, one per multiset of samples (the
\* cells add up the same in any order).
BatchesOf(S, n) ==
    UNION {{b \in [1 .. k -> S] : \A i \in 1 .. k - 1 : LexLeq(b[i], b[i + 1])} : k \in 0 .. n}

\* The samples inside an S x A table, and those with one index of -1 (the
\* last row or column in Python) or one past the table.
Inside(S, A, advs) == SamplesOf(0, S - 1, 0, A - 1, advs)
Outside(S, A) ==
    {<<s, a, 1>> : s \in {-1, S}, a \in 0 .. A - 1} \cup {<<s, a, 1>> : s \in 0 .. S - 1, a \in {-1, A}}

AllBatches == BatchesOf(Inside(StaNum, ActNum, AdvValues) \cup Outside(StaNum, ActNum), MaxBatch)
StepBatches == BatchesOf(Inside(StepStaNum, ActNum, AdvValues) \cup Outside(StepStaNum, ActNum), MaxBatch)
InRangeBatches == BatchesOf(Inside(StaNum, ActNum, SmallAdvValues), WassBatch)

\* The arguments env_name and eps: eps is read under 'Taxi-v3' alone.
EnvEps == {c \in EnvNames \X (0 .. MaxEps) : c[1] = "Taxi-v3" \/ c[2] = 0}
\* env_name and the draw of np.random.random(), made under 'Taxi-v3' alone.
EnvDraws == {c \in EnvNames \X RandomTenths : c[1] = "Taxi-v3" \/ c[2] = 0}

\* ------------------------------------------------------------------ Init
\* __init__ (lines 17-30, 97-111, 203-216) of class c with the arguments S, A.
Construct(c, S, A) ==
    /\ cls = c
    /\ sta_num = S
    /\ act_num = A
    /\ distributions = UniformTable
    /\ lamb = IF c = "Sinkhorn" THEN FromInt(3) ELSE None
    /\ held = None /\ heldAlias = FALSE /\ heldSnap = None
    /\ pc = "idle"
    /\ observes = None /\ env_name = "" /\ eps = 0
    /\ all_advantages = None /\ count = None /\ beta = None /\ best_j = None
    /\ old_distributions = None /\ s_i = -1 /\ j_i = -1 /\ pre = None
    /\ raised = "none" /\ nUpdates = 0 /\ allOk = TRUE /\ sampled = -1

Init == \E c \in {"KL", "Sinkhorn", "Wass"} : Construct(c, StaNum, ActNum)

\* update() is entered with these arguments.
Enter(batch, env, e) ==
    /\ observes' = batch /\ env_name' = env /\ eps' = e /\ pre' = distributions
    /\ nUpdates' = nUpdates + 1
    /\ UNCHANGED <<cls, sta_num, act_num, heldSnap>>

\* A write through self.distributions is seen through the caller's reference
\* when both name the same list.
Seen(new) == IF heldAlias THEN new ELSE held

\* The locals p.adv, p.cnt, b, bj and old, and the exception err (or "none")
\* the call stands at; self.distributions refers to a list with the rows new.
Locals(p, b, bj, old, new, err) ==
    /\ distributions' = new
    /\ all_advantages' = p.adv /\ count' = p.cnt
    /\ beta' = b /\ best_j' = bj /\ old_distributions' = old
    /\ raised' = err
    /\ allOk' = (allOk /\ err = "none")

\* The call raises err before it has bound anything but the tables of p.
Raise(p, err) ==
    /\ Locals(p, None, None, None, distributions, err)
    /\ pc' = "returning"
    /\ UNCHANGED <<lamb, held, heldAlias, s_i, j_i, sampled>>

\* ------------------------------------------- update() as one atomic call
\* Lines 85-91.  old_distributions is another name of the list
\* self.distributions (line 88), whose rows are replaced in place.
KLBody(p, new) ==
    IF p.err # "none" THEN Raise(p, p.err)
    ELSE /\ Locals(p, KLBeta, None, new, new, "none")
         /\ held' = Seen(new)
         /\ pc' = "returning"
         /\ UNCHANGED <<lamb, heldAlias, s_i, j_i, sampled>>

\* DRPolicyKL.update, lines 40-91.
KLUpdate(B) ==
    /\ pc = "idle" /\ cls = "KL" /\ nUpdates < MaxUpdates
    /\ \E batch \in B, env \in EnvNames :
       \E p \in {KLPrepare(batch, env)} :
          /\ Enter(batch, env, 0)
          /\ KLBody(p, KLTable(p.adv, distributions, KLBeta))

\* Lines 151-180.  self.distributions is bound to a new list of zero rows
\* (lines 169-171) before beta is first read (line 177).
SinkhornBody(p, c) ==
    IF p.err # "none" THEN Raise(p, p.err)
    ELSE /\ IF c.beta = None
            THEN Locals(p, None, None, distributions, ZeroTable, "UnboundLocalError")
            ELSE Locals(p, c.beta, None, distributions,
                        SinkhornTable(p.adv, distributions, c.lamb, c.beta), "none")
         /\ lamb' = c.lamb
         /\ heldAlias' = FALSE
         /\ pc' = "returning"
         /\ UNCHANGED <<held, s_i, j_i, sampled>>

\* DRPolicySinkhorn.update, lines 121-180.
SinkhornUpdate(B) ==
    /\ pc = "idle" /\ cls = "Sinkhorn" /\ nUpdates < MaxUpdates
    /\ \E batch \in B, c \in EnvEps :
       \E p \in {SinkhornPrepare(batch, c[1])} :
          /\ Enter(batch, c[1], c[2])
          /\ SinkhornBody(p, SinkhornConfig(c[1], c[2], lamb))

\* Lines 278-302.  opt_beta is read at line 292, before self.distributions is
\* bound to the new list.
WassBody(p, b, bj) ==
    IF p.err # "none" THEN Raise(p, p.err)
    ELSE IF b = None THEN Raise(p, "UnboundLocalError")
    ELSE /\ Locals(p, b, bj, distributions, WassTable(distributions, bj), "none")
         /\ heldAlias' = FALSE
         /\ pc' = "returning"
         /\ UNCHANGED <<lamb, held, s_i, j_i, sampled>>

\* DRPolicyWass.update, lines 226-302.
WassUpdate(B) ==
    /\ pc = "idle" /\ cls = "Wass" /\ nUpdates < MaxUpdates
    /\ \E batch \in B, c \in EnvDraws :
       \E p \in {WassPrepare(batch, c[1])}, b \in {WassConfig(c[1], c[2])} :
       \E bj \in {IF p.err = "none" /\ b # None THEN find_best_j(p.adv, b) ELSE None} :
          /\ Enter(batch, c[1], 0)
          /\ WassBody(p, b, bj)

\* update() returns or its exception leaves it: the frame is gone.
Return ==
    /\ pc = "returning"
    /\ pc' = "idle"
    /\ observes' = None /\ env_name' = "" /\ eps' = 0
    /\ all_advantages' = None /\ count' = None /\ beta' = None /\ best_j' = None
    /\ old_distributions' = None /\ s_i' = -1 /\ j_i' = -1 /\ pre' = None
    /\ raised' = "none"
    /\ UNCHANGED <<cls, sta_num, act_num, distributions, lamb, nUpdates, allOk, reader>>

\* get_policy(), lines 93-94, 199-200, 321-322: the caller gets the list itself.
GetPolicy ==
    /\ pc = "idle" /\ held = None
    /\ held' = distributions /\ heldAlias' = TRUE /\ heldSnap' = distributions
    /\ UNCHANGED <<cls, sta_num, act_num, distributions, lamb, pc, raised, nUpdates,
                   allOk, frame, sampled>>

Next ==
    \/ KLUpdate(AllBatches)
    \/ SinkhornUpdate(AllBatches)
    \/ WassUpdate(AllBatches)
    \/ Return
    \/ GetPolicy

Spec == Init /\ [][Next]_vars

\* Lines 48-60 (129-141, 236-248) alone: the advantage table of a batch, as
\* the three update() methods build it before anything else.
Aggregation(B) ==
    /\ pc = "idle"
    /\ \E batch \in B :
       \E p \in {Aggregate(batch)} :
          /\ observes' = batch
          /\ all_advantages' = p.adv
          /\ count' = p.cnt
          /\ raised' = p.err
    /\ pc' = "aggregated"
    /\ UNCHANGED <<cls, sta_num, act_num, distributions, lamb, nUpdates, allOk, reader,
                   env_name, eps, beta, best_j, old_distributions, s_i, j_i, pre>>

\* The table is dropped: the next batch starts from np.zeros.
Discard ==
    /\ pc = "aggregated"
    /\ pc' = "idle"
    /\ observes' = None /\ all_advantages' = None /\ count' = None /\ raised' = "none"
    /\ UNCHANGED <<cls, sta_num, act_num, distributions, lamb, nUpdates, allOk, reader,
                   env_name, eps, beta, best_j, old_distributions, s_i, j_i, pre>>

NextAgg == Aggregation(AllBatches) \/ Discard

SpecAgg == Init /\ [][NextAgg]_vars

\* A DRPolicyWass object fed samples of its own states and actions.
InitWass == Construct("Wass", StaNum, ActNum)

NextWass ==
    \/ WassUpdate(InRangeBatches)
    \/ Return

SpecWass == InitWass /\ [][NextWass]_vars

\* ------------------------------------------ update() followed step by step
\* The loop over (s, j) moves on, or the call is over.
Advance ==
    IF j_i + 1 < act_num THEN /\ j_i' = j_i + 1 /\ s_i' = s_i /\ pc' = pc
    ELSE IF s_i + 1 < sta_num THEN /\ j_i' = 0 /\ s_i' = s_i + 1 /\ pc' = pc
    ELSE /\ j_i' = j_i /\ s_i' = s_i /\ pc' = "returning"

\* Lines 48-88 of DRPolicyKL.update.
KLEnter(p) ==
    IF p.err # "none" THEN Raise(p, p.err)
    ELSE /\ Locals(p, KLBeta, None, distributions, distributions, "none")
         /\ pc' = "rows" /\ s_i' = 0
         /\ UNCHANGED <<lamb, held, heldAlias, j_i, sampled>>

KLBegin(B) ==
    /\ pc = "idle" /\ cls = "KL" /\ nUpdates < MaxStepUpdates
    /\ \E batch \in B, env \in EnvNames :
          /\ Enter(batch, env, 0)
          /\ KLEnter(KLPrepare(batch, env))

\* Lines 90-91 for s = s_i: the row is replaced in the list both names refer to.
KLPut(new) ==
    /\ distributions' = new /\ old_distributions' = new /\ held' = Seen(new)
    /\ IF s_i + 1 < sta_num THEN s_i' = s_i + 1 /\ pc' = pc
                            ELSE s_i' = s_i /\ pc' = "returning"

KLStep ==
    /\ pc = "rows" /\ cls = "KL"
    /\ KLPut([distributions EXCEPT
                 ![s_i] = KLRow(all_advantages[s_i], old_distributions[s_i], beta)])
    /\ UNCHANGED <<cls, sta_num, act_num, lamb, raised, nUpdates, allOk, heldAlias,
                   heldSnap, sampled, observes, env_name, eps, all_advantages, count,
                   beta, best_j, j_i, pre>>

\* Lines 129-165 of DRPolicySinkhorn.update.
SinkhornEnter(p, c) ==
    IF p.err # "none" THEN Raise(p, p.err)
    ELSE /\ Locals(p, c.beta, None, None, distributions, "none")
         /\ lamb' = c.lamb
         /\ pc' = "swap"
         /\ UNCHANGED <<held, heldAlias, s_i, j_i, sampled>>

SinkhornBegin(B) ==
    /\ pc = "idle" /\ cls = "Sinkhorn" /\ nUpdates < MaxStepUpdates
    /\ \E batch \in B, c \in EnvEps :
          /\ Enter(batch, c[1], c[2])
          /\ SinkhornEnter(SinkhornPrepare(batch, c[1]), SinkhornConfig(c[1], c[2], lamb))

\* Lines 236-292 of DRPolicyWass.update.
WassEnter(p, b) ==
    IF p.err # "none" THEN Raise(p, p.err)
    ELSE IF b = None THEN Raise(p, "UnboundLocalError")
    ELSE /\ Locals(p, b, find_best_j(p.adv, b), None, distributions, "none")
         /\ pc' = "swap"
         /\ UNCHANGED <<lamb, held, heldAlias, s_i, j_i, sampled>>

WassBegin(B) ==
    /\ pc = "idle" /\ cls = "Wass" /\ nUpdates < MaxStepUpdates
    /\ \E batch \in B, c \in EnvDraws :
          /\ Enter(batch, c[1], 0)
          /\ WassEnter(WassPrepare(batch, c[1]), WassConfig(c[1], c[2]))

\* Lines 168-171 and 294-297: self.distributions is bound to a new list of
\* zero rows; the caller's reference stays on the old list.
Swap ==
    /\ pc = "swap"
    /\ old_distributions' = distributions
    /\ distributions' = ZeroTable
    /\ heldAlias' = FALSE
    /\ pc' = "cells" /\ s_i' = 0 /\ j_i' = 0
    /\ UNCHANGED <<cls, sta_num, act_num, lamb, raised, nUpdates, allOk, held,
                   heldSnap, sampled, observes, env_name, eps, all_advantages, count,
                   beta, best_j, pre>>

\* Lines 175-180 for s = s_i and j = j_i; beta is first read at line 177.
SinkhornStep ==
    /\ pc = "cells" /\ cls = "Sinkhorn"
    /\ IF beta = None
       THEN /\ raised' = "UnboundLocalError" /\ allOk' = FALSE
            /\ pc' = "returning"
            /\ UNCHANGED <<distributions, s_i, j_i>>
       ELSE /\ distributions' = [distributions EXCEPT
                   ![s_i] = SinkhornSource(@, old_distributions[s_i],
                                           all_advantages[s_i], j_i, lamb, beta)]
            /\ Advance
            /\ UNCHANGED <<raised, allOk>>
    /\ UNCHANGED <<cls, sta_num, act_num, lamb, nUpdates, reader, observes, env_name,
                   eps, all_advantages, count, beta, best_j, old_distributions, pre>>

\* Lines 300-302 for s = s_i and j = j_i.
WassStep ==
    /\ pc = "cells" /\ cls = "Wass"
    /\ distributions' = [distributions EXCEPT
           ![s_i][j_i] = FAdd(@, WassCell(old_distributions[s_i], best_j[s_i], j_i))]
    /\ Advance
    /\ UNCHANGED <<cls, sta_num, act_num, lamb, raised, nUpdates, allOk, reader,
                   observes, env_name, eps, all_advantages, count, beta, best_j,
                   old_distributions, pre>>

\* np.random.choice(act_num, 1, p=row) (lines 37, 118, 223): an action of
\* non-zero probability, or ValueError (-2) when row is no distribution.
Draws(row) == IF ValidRow(row) THEN Support(row) ELSE {-2}

\* sample(obs), lines 32-38, 113-119, 218-224, by a reader that runs once
\* while update() does.
Sample(obs) ==
    /\ pc \notin {"idle", "returning"} /\ sampled = -1
    /\ sampled' \in Draws(distributions[obs])
    /\ UNCHANGED <<cls, sta_num, act_num, distributions, lamb, pc, raised, nUpdates,
                   allOk, frame, held, heldAlias, heldSnap>>

InitSteps == \E c \in {"KL", "Sinkhorn", "Wass"} : Construct(c, StepStaNum, ActNum)

NextSteps ==
    \/ KLBegin(StepBatches)
    \/ SinkhornBegin(StepBatches)
    \/ WassBegin(StepBatches)
    \/ KLStep
    \/ Swap
    \/ SinkhornStep
    \/ WassStep
    \/ Return
    \/ GetPolicy
    \/ \E obs \in States : Sample(obs)

SpecSteps == InitSteps /\ [][NextSteps]_vars

\* ================================================================ claims
Card(S) == Cardinality(S)

\* An update() call has just ended, with its frame still in view.
Ended == pc = "returning"
Succeeded == Ended /\ raised = "none"

\* --------------------------------------------------------------------- C1
\* C1: after any sequence of successful update() calls, of any of the three
\* classes, every row of the table is a distribution: all entries are >= 0
\* and they sum to 1.
C1_RowsAreDistributions ==
    (Ended /\ allOk) => \A s \in States : ValidRow(distributions[s])

\* --------------------------------------------------------------------- C2
\* No branch of the class binds beta for env_name.
NoBetaFor(c, env) ==
    \/ c = "Sinkhorn" /\ env \notin {"Taxi-v3", "NChain-v0"}
    \/ c = "Wass" /\ env \notin {"Taxi-v3", "NChain-v0", "CliffWalking-v0"}

\* C2: when update() of DRPolicySinkhorn or DRPolicyWass is called with an
\* environment name for which no beta is configured, the call raises and
\* self.distributions is exactly the table in place before the call.
C2_NoBetaLeavesTable ==
    (Ended /\ NoBetaFor(cls, env_name)) => (raised # "none" /\ distributions = pre)

\* --------------------------------------------------------------------- C3
\* The table the running update() call publishes when it completes.
PostTable ==
    IF cls = "KL" THEN KLTable(all_advantages, pre, beta)
    ELSE IF cls = "Wass" THEN WassTable(pre, best_j)
    ELSE IF beta # None THEN SinkhornTable(all_advantages, pre, lamb, beta)
    ELSE pre

\* C3: at every step of an update(), self.distributions and the list a
\* caller holds from get_policy() are either the complete table of before
\* the call or the complete table of after it.
C3_AtomicSwap ==
    pc \in {"rows", "swap", "cells"} =>
        /\ distributions \in {pre, PostTable}
        /\ held # None => held \in {pre, PostTable}

\* --------------------------------------------------------------------- C4
\* The k-th sample names a state or an action outside the table.
OutOfRange(k) ==
    \/ observes[k][1] \notin States
    \/ observes[k][2] \notin Actions

\* C4: if a sample passed to update() has a state index outside
\* [0, sta_num) or an action index outside [0, act_num), a negative index
\* included, the call raises and the table is left unchanged.
C4_OutOfRangeRejected ==
    (Ended /\ \E k \in DOMAIN observes : OutOfRange(k))
        => (raised # "none" /\ distributions = pre)

\* --------------------------------------------------------------------- C5
\* Every action of the row has the same advantage.
ConstantRow(row) == \A a, b \in DOMAIN row : row[a] = row[b]

\* C5: for any old distribution of a state s and any lambda > 0, beta > 0,
\* if the advantage of s is the same for every action then
\* DRPolicySinkhorn.update leaves distributions[s] unchanged.
C5_SinkhornIdentity ==
    (Succeeded /\ cls = "Sinkhorn" /\ FGreater(lamb, Zero) /\ FGreater(beta, Zero))
        => \A s \in States :
              ConstantRow(all_advantages[s]) => distributions[s] = pre[s]

\* --------------------------------------------------------------------- C6
\* x >= y on finite floats.
FGeq(x, y) == x[1] * y[2] >= y[1] * x[2]

\* j is the lowest index that maximises vals[j].
LowestMax(vals, j) ==
    /\ \A k \in DOMAIN vals : FGeq(vals[j], vals[k])
    /\ \A k \in DOMAIN vals : k < j => FGreater(vals[j], vals[k])

\* j is the lowest index that maximises adv_row[j] - b*d(j, i).
LowestBest(adv_row, i, b, j) ==
    \A vals \in {[k \in DOMAIN adv_row |->
                    FSub(adv_row[k], FMul(b, FromInt(IF k = i THEN 0 ELSE 1)))]} :
        LowestMax(vals, j)

\* j is the lowest-index action of maximal advantage.
LowestArgmax(adv_row, j) == LowestMax(adv_row, j)

\* C6: DRPolicyWass.update is a deterministic transport map.  For every
\* state s and source action i, best_j[s][i] is the lowest index j that
\* maximises advantage[s][j] - beta*d(j,i); new[s][j] is the sum of old[s][i]
\* over exactly the i with best_j[s][i] = j; the mass of each state is
\* conserved exactly; and with beta = 0 all the mass of a state ends on the
\* lowest-index action of maximal advantage.
C6_TransportMap ==
    Succeeded =>
        \A best0 \in {find_best_j(all_advantages, Zero)} :
        \A new0 \in {WassTable(pre, best0)} :
        \A s \in States :
            /\ \A i \in Actions : LowestBest(all_advantages[s], i, beta, best_j[s][i])
            /\ \A j \in Actions :
                  distributions[s][j] = SumOver(pre[s], {i \in Actions : best_j[s][i] = j})
            /\ SumOver(distributions[s], Actions) = SumOver(pre[s], Actions)
            /\ \A j \in Actions :
                  LowestArgmax(all_advantages[s], j) =>
                      /\ \A i \in Actions : best0[s][i] = j
                      /\ \A a \in Actions :
                            new0[s][a] = IF a = j THEN SumOver(pre[s], Actions) ELSE Zero

\* An update moved the mass of an action i to another one that is no better
\* for i than a destination of higher index.
C6_MassMovedOnTie ==
    /\ Succeeded /\ cls = "Wass"
    /\ distributions # pre
    /\ \E s \in States, i \in Actions, k \in Actions :
          /\ best_j[s][i] # i /\ pre[s][i] # Zero
          /\ k > best_j[s][i]
          /\ WassValue(all_advantages[s], k, i, beta)
                = WassValue(all_advantages[s], best_j[s][i], i, beta)

\* --------------------------------------------------------------------- C7
\* C7: DRPolicySinkhorn.update never computes a new table with lambda <= 0
\* or beta <= 0; a non-positive value is reported as an error.
C7_PositiveLambdaBeta ==
    (Succeeded /\ cls = "Sinkhorn") => (FGreater(lamb, Zero) /\ FGreater(beta, Zero))

\* --------------------------------------------------------------------- C8
\* The samples of the batch that fall in cell (s, a).
SamplesAt(s, a) == {k \in DOMAIN observes : observes[k][1] = s /\ observes[k][2] = a}

RECURSIVE SumAdvantages(_)
\* The sum of the advantages of the samples K.
SumAdvantages(K) ==
    IF K = {} THEN 0
    ELSE LET k == CHOOSE x \in K : TRUE IN observes[k][3] + SumAdvantages(K \ {k})

\* C8: for a batch of in-range samples, entry (s, a) of the advantage table
\* is the sum of the advantages of the samples with state s and action a
\* divided by their count when the count is at least 1, and 0 when the
\* count is 0; the table is a function of the current batch alone.
C8_MeanAdvantage ==
    (pc = "aggregated" /\ \A k \in DOMAIN observes : ~OutOfRange(k)) =>
        /\ raised = "none"
        /\ \A s \in States, a \in Actions :
              /\ count[s][a] = Card(SamplesAt(s, a))
              /\ all_advantages[s][a] =
                    IF SamplesAt(s, a) = {} THEN Zero
                    ELSE Rat(SumAdvantages(SamplesAt(s, a)), Card(SamplesAt(s, a)))

\* A table with a cell of several samples, whose mean is not their sum, next
\* to a cell with none.
C8_MeanOfSeveral ==
    /\ pc = "aggregated" /\ raised = "none"
    /\ \A k \in DOMAIN observes : ~OutOfRange(k)
    /\ \E s \in States, a \in Actions :
          /\ Card(SamplesAt(s, a)) >= 2
          /\ all_advantages[s][a] # FromInt(SumAdvantages(SamplesAt(s, a)))
    /\ \E s \in States, a \in Actions : count[s][a] = 0

\* --------------------------------------------------------------------- C9
\* C9: a published table is immutable: the list a caller obtained with
\* get_policy() keeps the row values it had, whatever update() calls follow.
C9_PublishedImmutable ==
    held # None => held = heldSnap

\* -------------------------------------------------------------------- C10
\* C10: over any sequence of DRPolicyWass.update calls the number of
\* actions with non-zero probability never increases for any state: the
\* support of the new row is the image under best_j of the support of the
\* old row.
C10_SupportNeverGrows ==
    [][\A s \in States :
          /\ Card(Support(distributions'[s])) <= Card(Support(distributions[s]))
          /\ (pc' = "returning" /\ raised' = "none") =>
                Support(distributions'[s]) = {best_j'[s][i] : i \in Support(distributions[s])}]_vars

\* A later update of a sequence moved the mass an earlier one had merged.
C10_MergedThenMoved ==
    /\ Succeeded /\ cls = "Wass" /\ nUpdates >= 2
    /\ \E s \in States :
          /\ Card(Support(pre[s])) < act_num
          /\ distributions[s] # pre[s]
          /\ Card(Support(distributions[s])) <= Card(Support(pre[s]))

====
